---- MODULE Spec2Model ----
(***************************************************************************)
(* Model of xpu_monitor.py: command resolution, device discovery, the      *)
(* streaming read/parse/store/render loop, and the signal-driven shutdown  *)
(* of monitor_loop (terminate, bounded wait, kill, terminal restore).      *)
(*                                                                         *)
(* Representation.  A Python str is a sequence of symbols; a symbol is one *)
(* character ("0".."9", ".", " ", "x") or an atomic word (a column name,   *)
(* "MiB", a device name).  Optional[T] is a sequence of length <= 1:       *)
(* None is <<>> and a value v is <<v>>.  A float is carried in tenths      *)
(* (75.5 is 755); every feed value used here has at most one decimal.      *)
(* A dict is an association list in insertion order, as Python keeps it.   *)
(***************************************************************************)
EXTENDS Integers, Sequences, FiniteSets, TLC

None == <<>>

Some(v) == <<v>>

Digits == {"0", "1", "2", "3", "4", "5", "6", "7", "8", "9"}

DigitVal(c) ==
  CASE c = "0" -> 0 [] c = "1" -> 1 [] c = "2" -> 2 [] c = "3" -> 3
    [] c = "4" -> 4 [] c = "5" -> 5 [] c = "6" -> 6 [] c = "7" -> 7
    [] c = "8" -> 8 [] c = "9" -> 9

RECURSIVE LStrip(_)
\* str.lstrip(): drop leading blanks.
LStrip(s) == IF s # <<>> /\ Head(s) = " " THEN LStrip(Tail(s)) ELSE s

RECURSIVE RStrip(_)
RStrip(s) ==
  IF s # <<>> /\ s[Len(s)] = " " THEN RStrip(SubSeq(s, 1, Len(s) - 1)) ELSE s

\* str.strip()
Strip(s) == RStrip(LStrip(s))

RECURSIVE DecVal(_)
\* value of a sequence of digits read as a decimal numeral
DecVal(s) ==
  IF s = <<>> THEN 0 ELSE DecVal(SubSeq(s, 1, Len(s) - 1)) * 10 + DigitVal(s[Len(s)])

AllDigits(s) == \A i \in 1..Len(s) : s[i] \in Digits

\* parse_int: None, blank and non-integer text give None; int() accepts
\* surrounding blanks and a run of digits.
parse_int(value) ==
  IF value = None THEN None
  ELSE LET v == Strip(value[1]) IN
       IF v = <<>> THEN None
       ELSE IF AllDigits(v) THEN Some(DecVal(v)) ELSE None

\* position of the first "." in s, or 0
DotAt(s) ==
  IF \E i \in 1..Len(s) : s[i] = "."
  THEN CHOOSE i \in 1..Len(s) : s[i] = "." /\ \A j \in 1..(i - 1) : s[j] # "."
  ELSE 0

\* float() on digits with at most one ".", in tenths
IsFloatText(v) ==
  LET d == DotAt(v) IN
  IF d = 0 THEN v # <<>> /\ AllDigits(v)
  ELSE /\ AllDigits(SubSeq(v, 1, d - 1))
       /\ AllDigits(SubSeq(v, d + 1, Len(v)))
       /\ Len(v) > 1

FloatTenths(v) ==
  LET d == DotAt(v) IN
  IF d = 0 THEN DecVal(v) * 10
  ELSE DecVal(SubSeq(v, 1, d - 1)) * 10
       + (IF d < Len(v) THEN DigitVal(v[d + 1]) ELSE 0)

\* to_float: None, blank and non-numeric text give None.
to_float(value) ==
  IF value = None THEN None
  ELSE LET v == Strip(value[1]) IN
       IF v = <<>> THEN None
       ELSE IF IsFloatText(v) THEN Some(FloatTenths(v)) ELSE None

RECURSIVE RemoveMiB(_)
\* value.replace('MiB', '')
RemoveMiB(s) ==
  IF s = <<>> THEN <<>>
  ELSE IF Head(s) = "MiB" THEN RemoveMiB(Tail(s))
  ELSE <<Head(s)>> \o RemoveMiB(Tail(s))

\* parse_mib
parse_mib(value) ==
  IF value = None THEN None ELSE to_float(Some(Strip(RemoveMiB(value[1]))))

(***************************************************************************)
(* dict helpers: an association list of <<key, value>> in insertion order. *)
(***************************************************************************)
Keys(d) == [i \in 1..Len(d) |-> d[i][1]]

KeySet(d) == {d[i][1] : i \in 1..Len(d)}

HasKey(d, k) == \E i \in 1..Len(d) : d[i][1] = k

\* d[k] for a key that is present
DictAt(d, k) == d[CHOOSE i \in 1..Len(d) : d[i][1] = k][2]

\* d.get(k): Optional
DictGet(d, k) == IF HasKey(d, k) THEN Some(DictAt(d, k)) ELSE None

\* d[k] = v: replace in place, or append a new key
DictSet(d, k, v) ==
  IF HasKey(d, k)
  THEN [i \in 1..Len(d) |-> IF d[i][1] = k THEN <<k, v>> ELSE d[i]]
  ELSE Append(d, <<k, v>>)

RECURSIVE DictZip(_, _)
\* dict(zip(names, values)): a repeated name keeps its last value
DictZip(names, values) ==
  IF names = <<>> \/ values = <<>> THEN <<>>
  ELSE LET n == IF Len(names) < Len(values) THEN Len(names) ELSE Len(values) IN
       DictSet(DictZip(SubSeq(names, 1, n - 1), SubSeq(values, 1, n - 1)),
               names[n], values[n])

(***************************************************************************)
(* csv parsing, as csv.reader(..., skipinitialspace=True) does it for the  *)
(* unquoted text the tool prints.                                          *)
(***************************************************************************)
RECURSIVE SplitComma(_)
\* the fields of a non-empty text, split at ","
SplitComma(s) ==
  IF \E i \in 1..Len(s) : s[i] = ","
  THEN LET i == CHOOSE k \in 1..Len(s) : s[k] = "," /\ \A j \in 1..(k - 1) : s[j] # ","
       IN <<SubSeq(s, 1, i - 1)>> \o SplitComma(SubSeq(s, i + 1, Len(s)))
  ELSE <<s>>

\* parse_csv_line: an empty line has no fields; blanks after a delimiter are skipped
parse_csv_line(line) ==
  IF line = <<>> THEN <<>>
  ELSE LET f == SplitComma(line) IN [i \in 1..Len(f) |-> LStrip(f[i])]

RECURSIVE JoinComma(_)
\* the text the tool prints for a row: fields joined by ", "
JoinComma(fields) ==
  IF fields = <<>> THEN <<>>
  ELSE IF Len(fields) = 1 THEN fields[1]
  ELSE fields[1] \o <<",", " ">> \o JoinComma(Tail(fields))

(***************************************************************************)
(* DeviceSample and DeviceMetadata                                         *)
(***************************************************************************)
DeviceMetadata == [name |-> None, memory_total_mib |-> None]

\* DeviceSample(...) built from a row dict, lines 268-274
DeviceSample(row) ==
  [timestamp |-> IF HasKey(row, <<"Timestamp">>) THEN DictAt(row, <<"Timestamp">>) ELSE <<>>,
   mem_used_mib |-> to_float(DictGet(row, <<"GPU Memory Used (MiB)">>)),
   mem_util_percent |-> to_float(DictGet(row, <<"GPU Memory Utilization (%)">>)),
   power_watts |-> to_float(DictGet(row, <<"GPU Power (W)">>)),
   temp_c |-> to_float(DictGet(row, <<"GPU Core Temperature (Celsius Degree)">>))]

(***************************************************************************)
(* Renderer.  Formatted text is kept structured: <<unit, n>> is the number *)
(* n printed with that unit ("GiB" in hundredths, "W", "C" and "%" in      *)
(* tenths) and <<"N/A">> is the placeholder.                               *)
(***************************************************************************)
NA == <<"N/A">>

\* thresholds of color_for_percent, in tenths of a percent
RedFrom == 850

YellowFrom == 600

\* the clamp of format_bar, in tenths of a percent
FullPercent == 1000

\* compute_bar_width's clamp and headroom
MinBar == 20

MaxBar == 60

LabelRoom == 50

\* MiB per GiB
MiBPerGiB == 1024

color_for_percent(percent) ==
  IF percent >= RedFrom THEN "red"
  ELSE IF percent >= YellowFrom THEN "yellow" ELSE "green"

Max2(a, b) == IF a >= b THEN a ELSE b

Min2(a, b) == IF a <= b THEN a ELSE b

\* format_bar: clamp, filled blocks, dim blocks, then the number to one decimal
format_bar(percent, width) ==
  LET p == Max2(0, Min2(FullPercent, percent))
      filled == (p * width) \div FullPercent
  IN [color |-> color_for_percent(p),
      filled |-> filled,
      remaining |-> width - filled,
      label |-> <<"%", p>>]

\* f'{mib / 1024.0:6.2f} GiB' for a value in tenths of a MiB, rounded to hundredths
GiBText(tenths) == <<"GiB", (tenths * 20 + MiBPerGiB) \div (2 * MiBPerGiB)>>

\* sorted(device_stats), by insertion into an ascending list
LtSeq(ids, x) == SelectSeq(ids, LAMBDA y : y < x)

GeSeq(ids, x) == SelectSeq(ids, LAMBDA y : y >= x)

RECURSIVE SortAsc(_)
SortAsc(ids) ==
  IF ids = <<>> THEN <<>>
  ELSE LET rest == SortAsc(Tail(ids)) IN
       LtSeq(rest, Head(ids)) \o <<Head(ids)>> \o GeSeq(rest, Head(ids))

\* iteration in dict order, without the sort
unsorted(d) == Keys(d)

sorted(d) == SortAsc(Keys(d))

RECURSIVE StrLess(_, _)
\* a < b on str; timestamps are digit strings
StrLess(a, b) ==
  IF b = <<>> THEN FALSE
  ELSE IF a = <<>> THEN TRUE
  ELSE IF Head(a) = Head(b) THEN StrLess(Tail(a), Tail(b))
  ELSE DigitVal(Head(a)) < DigitVal(Head(b))

\* max(non-empty timestamps, default 'N/A'), line 296
latest_ts(device_stats) ==
  LET ts == {device_stats[i][2].timestamp : i \in 1..Len(device_stats)} \ {<<>>} IN
  IF ts = {} THEN NA
  ELSE CHOOSE t \in ts : \A u \in ts : ~StrLess(t, u)

\* one device block, lines 308-329
DeviceBlock(device_id, sample, metadata, bar_width, last) ==
  LET meta == IF HasKey(metadata, device_id) THEN DictAt(metadata, device_id)
              ELSE DeviceMetadata
      mem_used_mib == IF sample.mem_used_mib # None /\ sample.mem_used_mib[1] # 0
                      THEN sample.mem_used_mib[1] ELSE 0
      total_known == meta.memory_total_mib # None /\ meta.memory_total_mib[1] # 0
      mem_percent ==
        IF sample.mem_util_percent # None THEN sample.mem_util_percent[1]
        ELSE IF total_known /\ meta.memory_total_mib[1] > 0
             THEN (mem_used_mib * FullPercent) \div meta.memory_total_mib[1]
             ELSE 0
  IN [device_id |-> device_id,
      label |-> IF meta.name # None /\ meta.name[1] # <<>> THEN meta.name[1]
                ELSE <<"Device", device_id>>,
      mem_used |-> GiBText(mem_used_mib),
      mem_total |-> IF total_known THEN GiBText(meta.memory_total_mib[1]) ELSE <<>>,
      bar |-> format_bar(mem_percent, bar_width),
      power |-> IF sample.power_watts # None THEN <<"W", sample.power_watts[1]>> ELSE NA,
      temp |-> IF sample.temp_c # None THEN <<"C", sample.temp_c[1]>> ELSE NA,
      divider |-> ~last]

\* render_dashboard's payload; None when the store is empty (nothing is written)
render_dashboard(device_stats, metadata, bar_width) ==
  IF device_stats = <<>> THEN None
  ELSE LET device_ids == sorted(device_stats) IN
       Some([latest_ts |-> latest_ts(device_stats),
             blocks |-> [idx \in 1..Len(device_ids) |->
                          DeviceBlock(device_ids[idx],
                                      DictAt(device_stats, device_ids[idx]),
                                      metadata, bar_width,
                                      idx = Len(device_ids))]])

(***************************************************************************)
(* Command resolution                                                      *)
(***************************************************************************)
AUTO_CMD == "auto"

CMD_FALLBACKS == <<"xpumcli", "xpu-smi">>

AbsPaths == {"/opt/xpum/bin/xpumcli"}

\* os.path.isabs
isabs(candidate) == candidate \in AbsPaths

\* a resolver that prefers the second fallback
CandidatesSwapped(binary) ==
  IF binary = AUTO_CMD THEN <<CMD_FALLBACKS[2], CMD_FALLBACKS[1]>> ELSE <<binary>>

\* the candidates resolve_command tries, in order (line 77)
Candidates(binary) == IF binary = AUTO_CMD THEN CMD_FALLBACKS ELSE <<binary>>

\* One candidate against the file system fs (the names that resolve): an
\* absolute path must exist and be executable, a bare name goes through
\* shutil.which.  The result is the resolved path, or None.
ResolveOne(candidate, fs) ==
  IF candidate \in fs
  THEN Some(IF isabs(candidate) THEN candidate ELSE "/usr/bin/" \o candidate)
  ELSE None

RECURSIVE ResolveFrom(_, _, _)
\* the loop of lines 79-88: [path |-> Optional, errors |-> the candidates that failed]
ResolveFrom(candidates, fs, errors) ==
  IF candidates = <<>> THEN [path |-> None, errors |-> errors]
  ELSE LET r == ResolveOne(Head(candidates), fs) IN
       IF r # None THEN [path |-> r, errors |-> errors]
       ELSE ResolveFrom(Tail(candidates), fs, Append(errors, Head(candidates)))

resolve_command(binary, fs) == ResolveFrom(Candidates(binary), fs, <<>>)

(***************************************************************************)
(* Discovery.  An invocation either fails to launch (an OSError subclass), *)
(* exits non-zero (CalledProcessError) or returns its stdout.  The JSON    *)
(* attempt's stdout is either not JSON or the Python value json.loads      *)
(* builds: [t |-> "dict" | "list" | "str" | "int" | "null", v |-> ...].    *)
(***************************************************************************)
\* entry.get(k) on a row dict: truthy text or nothing
StripQuoteBlank(s) == Strip(SelectSeq(s, LAMBDA c : c # "\""))

\* lines 183-194 for one row, given the header
CsvRow(metadata, headers, row) ==
  IF Len(row) # Len(headers) THEN metadata
  ELSE LET entry == DictZip(headers, row)
           device_id == parse_int(DictGet(entry, <<"Device ID">>))
       IN IF device_id = None THEN metadata
          ELSE LET old == IF HasKey(metadata, device_id[1])
                          THEN DictAt(metadata, device_id[1]) ELSE DeviceMetadata
                   nm == DictGet(entry, <<"Device Name">>)
                   total_mib == parse_mib(DictGet(entry, <<"Memory Physical Size">>))
                   info == [name |-> IF nm # None /\ nm[1] # <<>>
                                     THEN Some(StripQuoteBlank(nm[1])) ELSE old.name,
                            memory_total_mib |-> IF total_mib # None THEN total_mib
                                                 ELSE old.memory_total_mib]
               IN DictSet(metadata, device_id[1], info)

RECURSIVE CsvRows(_, _, _)
CsvRows(metadata, headers, rows) ==
  IF rows = <<>> THEN metadata
  ELSE CsvRows(CsvRow(metadata, headers, Head(rows)), headers, Tail(rows))

\* lines 179-194: stdout (its lines) into metadata
CsvMetadata(metadata, out) ==
  LET nonempty == SelectSeq(out, LAMBDA l : l # <<>>)
      rows == [i \in 1..Len(nonempty) |-> parse_csv_line(nonempty[i])]
  IN IF rows = <<>> THEN metadata ELSE CsvRows(metadata, rows[1], Tail(rows))

\* bool(value) of a json value
Truthy(x) ==
  CASE x.t = "null" -> FALSE
    [] x.t = "int" -> x.v # 0
    [] OTHER -> x.v # <<>>

\* int(device_id): [exc |-> name] or [val |-> n]
PyInt(x) ==
  CASE x.t = "int" -> [exc |-> "", val |-> x.v]
    [] x.t = "str" -> IF Strip(x.v) # <<>> /\ AllDigits(Strip(x.v))
                      THEN [exc |-> "", val |-> DecVal(Strip(x.v))]
                      ELSE [exc |-> "ValueError", val |-> 0]
    [] OTHER -> [exc |-> "TypeError", val |-> 0]

RECURSIVE JsonItems(_, _)
\* the loop of lines 208-214: [exc |-> name or "", metadata |-> ...]
JsonItems(metadata, items) ==
  IF items = <<>> THEN [exc |-> "", metadata |-> metadata]
  ELSE LET item == Head(items) IN
       IF item.t # "dict" THEN [exc |-> "AttributeError", metadata |-> metadata]
       ELSE LET device_id == DictGet(item.v, "device_id") IN
            IF device_id = None \/ device_id[1].t = "null"
            THEN JsonItems(metadata, Tail(items))
            ELSE LET n == PyInt(device_id[1]) IN
                 IF n.exc # "" THEN [exc |-> n.exc, metadata |-> metadata]
                 ELSE LET old == IF HasKey(metadata, n.val)
                                 THEN DictAt(metadata, n.val) ELSE DeviceMetadata
                          nm == DictGet(item.v, "device_name")
                          info == [name |-> IF nm # None /\ Truthy(nm[1])
                                            THEN Some(nm[1].v) ELSE old.name,
                                   memory_total_mib |-> old.memory_total_mib]
                      IN JsonItems(DictSet(metadata, n.val, info), Tail(items))

\* lines 207-214 on the value json.loads returned
JsonMetadata(metadata, data) ==
  IF data.t # "dict" THEN [exc |-> "AttributeError", metadata |-> metadata]
  ELSE LET dl == DictGet(data.v, "device_list") IN
       IF dl = None THEN [exc |-> "", metadata |-> metadata]
       ELSE CASE dl[1].t = "list" -> JsonItems(metadata, dl[1].v)
              [] dl[1].t = "dict" ->
                   IF dl[1].v = <<>> THEN [exc |-> "", metadata |-> metadata]
                   ELSE [exc |-> "AttributeError", metadata |-> metadata]
              [] dl[1].t = "str" ->
                   IF dl[1].v = <<>> THEN [exc |-> "", metadata |-> metadata]
                   ELSE [exc |-> "AttributeError", metadata |-> metadata]
              [] OTHER -> [exc |-> "TypeError", metadata |-> metadata]

\* compute_bar_width: bar_width 0 stands for None (both are falsy)
compute_bar_width(arg, term_width) ==
  IF arg > 0 THEN arg ELSE Max2(MinBar, Min2(MaxBar, term_width - LabelRoom))

(***************************************************************************)
(* Inputs: what the environment can hand the program.                      *)
(***************************************************************************)
Cmds == {AUTO_CMD, "xpu-smi", "/opt/xpum/bin/xpumcli"}

Resolvable == {"xpumcli", "xpu-smi", "/opt/xpum/bin/xpumcli"}

BarWidthArgs == {0}

TermWidths == {120}

OSErrors == {"FileNotFoundError", "PermissionError"}

DiscoveryHeader == JoinComma(<< <<"Device ID">>, <<"Device Name">>, <<"Memory Physical Size">> >>)

CsvOutputs ==
  { <<>>,
    <<DiscoveryHeader>>,
    <<DiscoveryHeader, <<>>,
      JoinComma(<< <<"0">>, <<"Arc">>, <<"8", "1", "9", "2", " ", "MiB">> >>)>>,
    <<DiscoveryHeader, JoinComma(<< <<"0">>, <<"Arc">> >>)>>,
    <<DiscoveryHeader, JoinComma(<< <<"x">>, <<"Arc">>, <<"8", "1", "9", "2">> >>)>> }

CsvOutcomes ==
  {[kind |-> "oserror", exc |-> e, out |-> <<>>] : e \in OSErrors}
  \cup {[kind |-> "exit", exc |-> "CalledProcessError", out |-> <<>>]}
  \cup {[kind |-> "ok", exc |-> "", out |-> o] : o \in CsvOutputs}

JNull == [t |-> "null", v |-> <<>>]

JStr(x) == [t |-> "str", v |-> x]

JInt(n) == [t |-> "int", v |-> n]

JList(x) == [t |-> "list", v |-> x]

JDict(x) == [t |-> "dict", v |-> x]

JDevices(items) == JDict(<< <<"device_list", items>> >>)

\* a tuple, not a set: its values are of different shapes
JsonValues ==
  << JDevices(JList(<< JDict(<< <<"device_id", JInt(1)>>, <<"device_name", JStr(<<"Max">>)>> >>) >>)),
     JDevices(JList(<< JDict(<< <<"device_id", JStr(<<"1">>)>>, <<"device_name", JNull>> >>) >>)),
     JDevices(JList(<< JDict(<< <<"device_name", JStr(<<"Max">>)>> >>) >>)),
     JDevices(JList(<< JDict(<< <<"device_id", JStr(<<"x">>)>> >>) >>)),
     JDevices(JList(<< JDict(<< <<"device_id", JList(<<>>)>> >>) >>)),
     JDevices(JList(<< JStr(<<"x">>) >>)),
     JDevices(JNull),
     JDict(<<>>),
     JList(<<>>) >>

\* what the JSON invocation can do: fail to launch, exit non-zero, print
\* something that is not JSON (or nothing), or print JsonValues[i]
JsonOutcomes ==
  [i \in 1..(Len(JsonValues) + 4) |->
     IF i = 1 THEN [kind |-> "oserror", exc |-> "FileNotFoundError", data |-> JNull]
     ELSE IF i = 2 THEN [kind |-> "oserror", exc |-> "PermissionError", data |-> JNull]
     ELSE IF i = 3 THEN [kind |-> "exit", exc |-> "CalledProcessError", data |-> JNull]
     ELSE IF i = 4 THEN [kind |-> "notjson", exc |-> "JSONDecodeError", data |-> JNull]
     ELSE [kind |-> "ok", exc |-> "", data |-> JsonValues[i - 4]]]

ColTs == <<"Timestamp">>

ColId == <<"DeviceId">>

ColUsed == <<"GPU Memory Used (MiB)">>

ColUtil == <<"GPU Memory Utilization (%)">>

ColPower == <<"GPU Power (W)">>

ColTemp == <<"GPU Core Temperature (Celsius Degree)">>

FullHeader == JoinComma(<<ColTs, ColId, ColUsed, ColUtil, ColPower, ColTemp>>)

ShortHeader == JoinComma(<<ColTs, ColId, ColPower>>)

\* a header without a DeviceId column
NoIdHeader == JoinComma(<<ColTs, ColPower>>)

\* header, blank line, one good row per device 0 and 1, one row without a device id
LinesBasic ==
  { FullHeader,
    <<>>,
    JoinComma(<< <<"1">>, <<"0">>, <<"2", "0", "4", "8">>, <<>>, <<"7", "5", ".", "5">>, <<"6", "1">> >>),
    JoinComma(<< <<"2">>, <<"1">>, <<>>, <<>>, <<>>, <<>> >>),
    JoinComma(<< <<"2">>, <<"x">>, <<"1">>, <<"1">>, <<"1">>, <<"1">> >>) }

LinesRich ==
  LinesBasic \cup
  { ShortHeader,
    NoIdHeader,
    JoinComma(<< <<"3">>, <<"3", "0", ".", "5">> >>),
    JoinComma(<< <<"2">>, <<"0">>, <<>>, <<>>, <<>>, <<>> >>),
    JoinComma(<< <<"3">>, <<"2", " ">>, <<"0">>, <<"9", "0", ".", "0">>, <<"x">>, <<" ">> >>),
    JoinComma(<< <<"3">>, <<"1">>, <<"1", "0", "2", "4">>, <<>>, <<>>, <<"4", "0">> >>),
    JoinComma(<< <<"3">>, <<"1">>, <<"3", "0", ".", "5">> >>),
    JoinComma(<< <<"3">>, <<"1", ".", "5">>, <<"1">>, <<"1">>, <<"1">>, <<"1">> >>),
    JoinComma(<< <<"3">>, <<>>, <<"1">>, <<"1">>, <<"1">>, <<"1">> >>) }

(***************************************************************************)
(* The program state.                                                      *)
(***************************************************************************)
VARIABLES
  pc,                \* where main / monitor_loop stands
  cmd,               \* args.cmd
  fs,                \* the candidates that resolve on this machine
  cmd_path,          \* Optional: what resolve_command returned
  stderr,            \* the messages written to the error stream
  exit_code,         \* Optional: the process exit status
  metadata,          \* dict device id -> DeviceMetadata
  proc,              \* the child: "none", "running", "eof" (stdout closed), "exited"
  bar_width,
  alt_screen_active, \* monitor_loop's local
  alt_on,            \* the terminal is in alternate-screen mode, cursor hidden
  restores,          \* how often SHOW_CURSOR + ALT_SCREEN_DISABLE was written
  screen,            \* Optional: the payload last written by clear_and_write
  handlers,          \* the signals handle_exit is installed for
  headers,           \* Optional: the active header
  device_stats,      \* dict device id -> DeviceSample
  line,              \* Optional: the text readline returned last
  pending,           \* the exception passing through the finally block, or ""
  done,              \* what the process has done so far (events)
  sig_log            \* the phases in which a signal was delivered

vars == <<pc, cmd, fs, cmd_path, stderr, exit_code, metadata, proc, bar_width,
          alt_screen_active, alt_on, restores, screen, handlers, headers,
          device_stats, line, pending, done, sig_log>>

Starting == {"resolve", "fetch_csv", "fetch_json", "launch", "enter_alt",
             "install_int", "install_term"}

Streaming == {"read", "render"}

Draining == {"except", "poll", "terminate", "wait", "kill"}

Phase(p) ==
  IF p \in Starting THEN "Starting"
  ELSE IF p \in Streaming THEN "Streaming"
  ELSE IF p \in Draining THEN "Draining"
  ELSE IF p = "restore" THEN "Stopping" ELSE "Exited"

InitWith(cmds, fss) ==
  /\ pc = "resolve"
  /\ cmd \in cmds
  /\ fs \in fss
  /\ cmd_path = None
  /\ stderr = <<>>
  /\ exit_code = None
  /\ metadata = <<>>
  /\ proc = "none"
  /\ bar_width = 0
  /\ alt_screen_active = FALSE
  /\ alt_on = FALSE
  /\ restores = 0
  /\ screen = None
  /\ handlers = {}
  /\ headers = None
  /\ device_stats = <<>>
  /\ line = None
  /\ pending = ""
  /\ done = {}
  /\ sig_log = {}

Init == InitWith(Cmds, SUBSET Resolvable)

\* An exception leaves monitor_loop: main catches FileNotFoundError only
\* (lines 337-341); anything else ends the interpreter with a traceback.
Propagate(exc, msg) ==
  /\ pc' = "exited"
  /\ stderr' = Append(stderr, IF exc = "FileNotFoundError" THEN msg
                              ELSE [kind |-> "traceback", exc |-> exc, tried |-> <<>>])
  /\ exit_code' = Some(IF exc = "KeyboardInterrupt" THEN 130 ELSE 1)

OSErrorMsg == [kind |-> "message", exc |-> "FileNotFoundError", tried |-> <<>>]

\* line 234, and main's handler for its failure
Resolve ==
  /\ pc = "resolve"
  /\ LET r == resolve_command(cmd, fs) IN
     IF r.path # None
     THEN /\ cmd_path' = r.path
          /\ pc' = "fetch_csv"
          /\ UNCHANGED <<stderr, exit_code>>
     ELSE /\ Propagate("FileNotFoundError",
                       [kind |-> "not_found", exc |-> "FileNotFoundError", tried |-> r.errors])
          /\ UNCHANGED cmd_path
  /\ UNCHANGED <<cmd, fs, metadata, proc, bar_width, alt_screen_active, alt_on,
                 restores, screen, handlers, headers, device_stats, line, pending,
                 done, sig_log>>

\* lines 171-196: the tabular attempt
FetchCsv ==
  /\ pc = "fetch_csv"
  /\ done' = done \cup {"discovery"}
  /\ \E o \in CsvOutcomes :
       \/ /\ o.kind = "oserror"
          /\ Propagate(o.exc, OSErrorMsg)
          /\ UNCHANGED metadata
       \/ /\ o.kind = "exit"
          /\ pc' = "fetch_json"
          /\ UNCHANGED <<metadata, stderr, exit_code>>
       \/ /\ o.kind = "ok"
          /\ metadata' = CsvMetadata(metadata, o.out)
          /\ pc' = "fetch_json"
          /\ UNCHANGED <<stderr, exit_code>>
  /\ UNCHANGED <<cmd, fs, cmd_path, proc, bar_width, alt_screen_active, alt_on,
                 restores, screen, handlers, headers, device_stats, line, pending,
                 sig_log>>

\* lines 199-218: the JSON attempt
FetchJson ==
  /\ pc = "fetch_json"
  /\ \E i \in DOMAIN JsonOutcomes :
       LET o == JsonOutcomes[i] IN
       \/ /\ o.kind = "oserror"
          /\ Propagate(o.exc, OSErrorMsg)
          /\ UNCHANGED metadata
       \/ /\ o.kind \in {"exit", "notjson"}
          /\ pc' = "launch"
          /\ UNCHANGED <<metadata, stderr, exit_code>>
       \/ /\ o.kind = "ok"
          /\ LET r == JsonMetadata(metadata, o.data) IN
             IF r.exc = ""
             THEN /\ metadata' = r.metadata
                  /\ pc' = "launch"
                  /\ UNCHANGED <<stderr, exit_code>>
             ELSE /\ Propagate(r.exc, OSErrorMsg)
                  /\ UNCHANGED metadata
  /\ UNCHANGED <<cmd, fs, cmd_path, proc, bar_width, alt_screen_active, alt_on,
                 restores, screen, handlers, headers, device_stats, line, pending,
                 done, sig_log>>

\* lines 236-237: spawn the child, then compute the bar width
Launch ==
  /\ pc = "launch"
  /\ \/ /\ proc' = "running"
        /\ done' = done \cup {"spawn"}
        /\ \E a \in BarWidthArgs, w \in TermWidths : bar_width' = compute_bar_width(a, w)
        /\ pc' = "enter_alt"
        /\ UNCHANGED <<stderr, exit_code>>
     \/ /\ \E e \in OSErrors : Propagate(e, OSErrorMsg)
        /\ done' = done \cup {"spawn_failed"}
        /\ UNCHANGED <<proc, bar_width>>
  /\ UNCHANGED <<cmd, fs, cmd_path, metadata, alt_screen_active, alt_on, restores,
                 screen, handlers, headers, device_stats, line, pending, sig_log>>

\* line 240 with enter_alt_screen, lines 117-122
EnterAltScreen ==
  /\ pc = "enter_alt"
  /\ \E isatty \in BOOLEAN :
       /\ alt_screen_active' = isatty
       /\ alt_on' = isatty
       /\ done' = IF isatty THEN done \cup {"alt_screen"} ELSE done
  /\ pc' = "install_int"
  /\ UNCHANGED <<cmd, fs, cmd_path, stderr, exit_code, metadata, proc, bar_width,
                 restores, screen, handlers, headers, device_stats, line, pending,
                 sig_log>>

\* lines 246-247
InstallHandler ==
  /\ pc \in {"install_int", "install_term"}
  /\ handlers' = handlers \cup {IF pc = "install_int" THEN "SIGINT" ELSE "SIGTERM"}
  /\ pc' = IF pc = "install_int" THEN "install_term" ELSE "read"
  /\ UNCHANGED <<cmd, fs, cmd_path, stderr, exit_code, metadata, proc, bar_width,
                 alt_screen_active, alt_on, restores, screen, headers, device_stats,
                 line, pending, done, sig_log>>

(***************************************************************************)
(* Streaming: lines 250-276                                                *)
(***************************************************************************)
\* line 259
IsHeader(parsed) == parsed[1] = ColTs

\* a guard that forgets the field count
FieldCountAny(hdr, parsed) == hdr # None

\* line 262: a header is known and the row has as many fields
FieldCountOk(hdr, parsed) == hdr # None /\ Len(parsed) = Len(hdr[1])

\* an update that keeps the old reading where the new row has none
StoreMerged(stats, device_id, sample) ==
  IF ~HasKey(stats, device_id) THEN DictSet(stats, device_id, sample)
  ELSE LET old == DictAt(stats, device_id)
           keep(new, prev) == IF new = None THEN prev ELSE new
       IN DictSet(stats, device_id,
                  [timestamp |-> sample.timestamp,
                   mem_used_mib |-> keep(sample.mem_used_mib, old.mem_used_mib),
                   mem_util_percent |-> keep(sample.mem_util_percent, old.mem_util_percent),
                   power_watts |-> keep(sample.power_watts, old.power_watts),
                   temp_c |-> keep(sample.temp_c, old.temp_c)])

\* line 275
StoreSample(stats, device_id, sample) == DictSet(stats, device_id, sample)

\* lines 256-275 for one line of text:
\* [headers |-> ..., device_stats |-> ..., render |-> whether line 276 is reached]
HandleLine(hdr, stats, text) ==
  LET parsed == parse_csv_line(text)
      skip == [headers |-> hdr, device_stats |-> stats, render |-> FALSE]
  IN IF parsed = <<>> THEN skip
     ELSE IF IsHeader(parsed) THEN [skip EXCEPT !.headers = Some(parsed)]
     ELSE IF ~FieldCountOk(hdr, parsed) THEN skip
     ELSE LET row == DictZip(hdr[1], parsed)
              device_id == parse_int(DictGet(row, ColId))
          IN IF device_id = None THEN skip
             ELSE [headers |-> hdr,
                   device_stats |-> StoreSample(stats, device_id[1], DeviceSample(row)),
                   render |-> TRUE]

\* lines 251-275: one pass of the loop up to the render call
ReadLine(lines) ==
  /\ pc = "read"
  /\ \/ \* a line the child wrote (the pipe may still hold it after the child is gone)
        /\ proc \in {"running", "eof", "exited"}
        /\ \E text \in lines :
             LET r == HandleLine(headers, device_stats, text) IN
             /\ line' = Some(text)
             /\ headers' = r.headers
             /\ device_stats' = r.device_stats
             /\ pc' = IF r.render THEN "render" ELSE "read"
     \/ \* '' with the child gone: break, into the finally block
        /\ proc = "exited"
        /\ line' = None
        /\ pc' = "poll"
        /\ UNCHANGED <<headers, device_stats>>
     \/ \* '' with the child still alive: continue
        /\ proc = "eof"
        /\ line' = None
        /\ pc' = "read"
        /\ UNCHANGED <<headers, device_stats>>
  /\ UNCHANGED <<cmd, fs, cmd_path, stderr, exit_code, metadata, proc, bar_width,
                 alt_screen_active, alt_on, restores, screen, handlers, pending,
                 done, sig_log>>

\* line 276: render_dashboard and clear_and_write; a failing write raises OSError
\* inside the try block, which only the finally block sees
Render ==
  /\ pc = "render"
  /\ \/ /\ LET payload == render_dashboard(device_stats, metadata, bar_width) IN
           screen' = IF payload = None THEN screen ELSE payload
        /\ done' = done \cup {"render"}
        /\ pc' = "read"
        /\ UNCHANGED pending
     \/ /\ pending' = "OSError"
        /\ pc' = "poll"
        /\ UNCHANGED <<screen, done>>
  /\ UNCHANGED <<cmd, fs, cmd_path, stderr, exit_code, metadata, proc, bar_width,
                 alt_screen_active, alt_on, restores, handlers, headers,
                 device_stats, line, sig_log>>

(***************************************************************************)
(* Shutdown: lines 277-286                                                 *)
(***************************************************************************)
\* lines 277-278: except KeyboardInterrupt: pass
Except ==
  /\ pc = "except"
  /\ pc' = "poll"
  /\ UNCHANGED <<cmd, fs, cmd_path, stderr, exit_code, metadata, proc, bar_width,
                 alt_screen_active, alt_on, restores, screen, handlers, headers,
                 device_stats, line, pending, done, sig_log>>

\* line 280
Poll ==
  /\ pc = "poll"
  /\ done' = done \cup {IF proc = "exited" THEN "polled_exited" ELSE "polled_alive"}
  /\ pc' = IF proc = "exited" THEN "restore" ELSE "terminate"
  /\ UNCHANGED <<cmd, fs, cmd_path, stderr, exit_code, metadata, proc, bar_width,
                 alt_screen_active, alt_on, restores, screen, handlers, headers,
                 device_stats, line, pending, sig_log>>

\* line 281
Terminate ==
  /\ pc = "terminate"
  /\ done' = done \cup {"terminate"}
  /\ pc' = "wait"
  /\ UNCHANGED <<cmd, fs, cmd_path, stderr, exit_code, metadata, proc, bar_width,
                 alt_screen_active, alt_on, restores, screen, handlers, headers,
                 device_stats, line, pending, sig_log>>

\* lines 282-284: wait(timeout=0.5) returns once the child is gone, else TimeoutExpired
Wait ==
  /\ pc = "wait"
  /\ done' = done \cup {IF proc = "exited" THEN "waited" ELSE "timeout"}
  /\ pc' = IF proc = "exited" THEN "restore" ELSE "kill"
  /\ UNCHANGED <<cmd, fs, cmd_path, stderr, exit_code, metadata, proc, bar_width,
                 alt_screen_active, alt_on, restores, screen, handlers, headers,
                 device_stats, line, pending, sig_log>>

\* line 285
Kill ==
  /\ pc = "kill"
  /\ done' = done \cup {"kill"}
  /\ proc' = "exited"
  /\ pc' = "restore"
  /\ UNCHANGED <<cmd, fs, cmd_path, stderr, exit_code, metadata, bar_width,
                 alt_screen_active, alt_on, restores, screen, handlers, headers,
                 device_stats, line, pending, sig_log>>

\* exit_alt_screen, lines 125-129: [alt_on, restores] after the call
exit_alt_screen(active, on, n) ==
  IF ~active THEN [alt_on |-> on, restores |-> n]
  ELSE [alt_on |-> FALSE, restores |-> n + 1]

\* line 286, then the end of the finally block: re-raise what is pending, or
\* return to main, which returns (exit status 0)
Restore ==
  /\ pc = "restore"
  /\ LET r == exit_alt_screen(alt_screen_active, alt_on, restores) IN
     /\ alt_on' = r.alt_on
     /\ restores' = r.restores
  /\ done' = done \cup {"stopped"}
  /\ IF pending # ""
     THEN Propagate(pending, OSErrorMsg)
     ELSE /\ pc' = "exited"
          /\ exit_code' = Some(0)
          /\ UNCHANGED stderr
  /\ UNCHANGED <<cmd, fs, cmd_path, metadata, proc, bar_width, alt_screen_active,
                 screen, handlers, headers, device_stats, line, pending, sig_log>>

(***************************************************************************)
(* The environment: signals to the monitor, and the child's own life.      *)
(***************************************************************************)
Signals == {"SIGINT", "SIGTERM"}

\* A signal arrives while the process stands at pc.  SIGTERM without a handler
\* kills the process.  Otherwise KeyboardInterrupt is raised where the process
\* stands (Python's default SIGINT handler, or handle_exit, lines 242-244): the
\* try body's except clause catches it; raised in the except clause it passes
\* through the finally block; raised anywhere else it leaves monitor_loop at
\* once, and main does not catch it.
Signal ==
  /\ pc # "exited"
  /\ sig_log' = sig_log \cup {Phase(pc)}
  /\ \E sig \in Signals :
       IF sig = "SIGTERM" /\ sig \notin handlers
       THEN /\ pc' = "exited"
            /\ exit_code' = Some(143)
            /\ UNCHANGED <<stderr, pending>>
       ELSE IF pc \in Streaming
       THEN /\ pc' = "except"
            /\ UNCHANGED <<stderr, exit_code, pending>>
       ELSE IF pc = "except"
       THEN /\ pc' = "poll"
            /\ pending' = "KeyboardInterrupt"
            /\ UNCHANGED <<stderr, exit_code>>
       ELSE /\ Propagate("KeyboardInterrupt", OSErrorMsg)
            /\ UNCHANGED pending
  /\ UNCHANGED <<cmd, fs, cmd_path, metadata, proc, bar_width, alt_screen_active,
                 alt_on, restores, screen, handlers, headers, device_stats, line,
                 done>>

\* the child closes its stdout, or exits (on its own, or on SIGTERM)
ChildStep ==
  /\ pc # "exited"
  /\ \/ /\ proc = "running"
        /\ proc' \in {"eof", "exited"}
     \/ /\ proc = "eof"
        /\ proc' = "exited"
  /\ UNCHANGED <<pc, cmd, fs, cmd_path, stderr, exit_code, metadata, bar_width,
                 alt_screen_active, alt_on, restores, screen, handlers, headers,
                 device_stats, line, pending, done, sig_log>>

Step(lines) ==
  \/ Resolve
  \/ FetchCsv
  \/ FetchJson
  \/ Launch
  \/ EnterAltScreen
  \/ InstallHandler
  \/ ReadLine(lines)
  \/ Render
  \/ Except
  \/ Poll
  \/ Terminate
  \/ Wait
  \/ Kill
  \/ Restore
  \/ Signal
  \/ ChildStep

Next == Step(LinesBasic)

Spec == Init /\ [][Next]_vars

\* the same program, fed the richer stream on a machine where both tools are installed
InitStream == InitWith({AUTO_CMD}, {{"xpumcli", "xpu-smi"}})

NextStream == Step(LinesRich)

SpecStream == InitStream /\ [][NextStream]_vars

(***************************************************************************)
(* Properties                                                              *)
(***************************************************************************)
\* C1: once the alternate screen was entered, every exit of the process has
\* written the restore sequence exactly once and left the alternate screen.
C1_RestoreOnEveryExit ==
  (pc = "exited" /\ "alt_screen" \in done) => (restores = 1 /\ ~alt_on)

\* the restore sequence is never written twice
C1_NeverTwice == restores <= 1

\* C2: a signal delivered while Streaming ends in Stopped with exit status 0
\* and nothing on the error stream.
C2_StreamingSignalGraceful ==
  (pc = "exited" /\ "Streaming" \in sig_log)
    => (exit_code = Some(0) /\ "stopped" \in done /\ stderr = <<>>)

\* the same with no further signal once the stop has begun
C2_SingleSignal ==
  (pc = "exited" /\ sig_log = {"Streaming"})
    => (exit_code = Some(0) /\ "stopped" \in done /\ stderr = <<>> /\ ~alt_on)

\* C3: a stop request repeated while Draining changes nothing: no exception
\* escapes, the drain completes and the terminal is restored.
C3_RepeatedStopHarmless ==
  (pc = "exited" /\ {"Streaming", "Draining"} \subseteq sig_log)
    => (exit_code = Some(0) /\ "stopped" \in done /\ ~alt_on /\ stderr = <<>>)

\* C4: the monitor leaves Draining only through Stopped.
C4_DrainReachesStopped ==
  [][(pc \in Draining \cup {"restore"} /\ pc' = "exited") => "stopped" \in done']_vars

\* the order of the drain: terminate and kill only for a child found alive,
\* terminate before the wait, kill only after the wait timed out
C4_DrainOrder ==
  /\ "polled_exited" \in done => done \cap {"terminate", "timeout", "waited", "kill"} = {}
  /\ done \cap {"timeout", "waited"} # {} => "terminate" \in done
  /\ "terminate" \in done => "polled_alive" \in done
  /\ "kill" \in done => ("timeout" \in done /\ "waited" \notin done)

\* C5: discovery never ends the program: with no signal delivered, a process
\* that began discovery went on to launch the child.
C5_DiscoveryNeverRaises ==
  (pc = "exited" /\ "discovery" \in done /\ sig_log = {})
    => done \cap {"spawn", "spawn_failed"} # {}

(***************************************************************************)
(* Stream properties.  A step that reads a line of text is a step from     *)
(* "read" that keeps the child's state and leaves a text in line.          *)
(***************************************************************************)
ReadsText == pc = "read" /\ pc' \in {"read", "render"} /\ proc' = proc /\ line' # None

\* the field of a row under the column named col, None when no column has that name
FieldUnder(hdr, fields, col) ==
  LET at == {i \in 1..Len(hdr) : hdr[i] = col} IN
  IF at = {} THEN None
  ELSE Some(fields[CHOOSE i \in at : \A j \in at : j <= i])

IsHeaderLine(fields) == fields # <<>> /\ fields[1] = <<"Timestamp">>

IsDataRow(fields) == fields # <<>> /\ fields[1] # <<"Timestamp">>

\* text that is an integer once surrounding blanks are dropped
IsIntegerText(x) == x # None /\ Strip(x[1]) # <<>> /\ AllDigits(Strip(x[1]))

\* a data row that must be dropped: no header yet, another field count, or no
\* integer under DeviceId
RowRejected(hdr, fields) ==
  \/ hdr = None
  \/ Len(fields) # Len(hdr[1])
  \/ ~IsIntegerText(FieldUnder(hdr[1], fields, ColId))

\* C6: a rejected row changes neither the store, the header nor the screen and
\* leads to no render; a header line replaces the header and does no more.
C6_RejectedLineNoEffect ==
  [][ReadsText =>
       LET fields == parse_csv_line(line'[1]) IN
       /\ (IsDataRow(fields) /\ RowRejected(headers, fields)) =>
            (device_stats' = device_stats /\ headers' = headers
             /\ screen' = screen /\ pc' = "read")
       /\ IsHeaderLine(fields) =>
            (headers' = Some(fields) /\ device_stats' = device_stats
             /\ screen' = screen /\ pc' = "read")]_vars

\* a good render is on screen and the line just read is a row with as many
\* fields as the active header but no integer under DeviceId
C6_Witness ==
  /\ pc = "read"
  /\ screen # None
  /\ line # None
  /\ headers # None
  /\ LET fields == parse_csv_line(line[1]) IN
     /\ IsDataRow(fields)
     /\ Len(fields) = Len(headers[1])
     /\ RowRejected(headers, fields)
  /\ screen = render_dashboard(device_stats, metadata, bar_width)

\* the stored sample has no usable memory percentage: none reported and no positive total
NoPercent(sample, meta) ==
  /\ sample.mem_util_percent = None
  /\ ~(meta.memory_total_mib # None /\ meta.memory_total_mib[1] > 0)

MetaOf(device_id) ==
  IF HasKey(metadata, device_id) THEN DictAt(metadata, device_id) ELSE DeviceMetadata

\* C7: on screen, an absent reading shows as N/A: memory used, power and
\* temperature, and the percentage label when no percentage is available.
C7_AbsentShowsNA ==
  (pc = "read" /\ screen # None) =>
    \A i \in 1..Len(screen[1].blocks) :
      LET b == screen[1].blocks[i]
          sample == DictAt(device_stats, b.device_id)
      IN /\ sample.mem_used_mib = None => b.mem_used = NA
         /\ sample.power_watts = None => b.power = NA
         /\ sample.temp_c = None => b.temp = NA
         /\ NoPercent(sample, MetaOf(b.device_id)) => b.bar.label = NA

\* the two fields the renderer does guard
C7_PowerTempNA ==
  (pc = "read" /\ screen # None) =>
    \A i \in 1..Len(screen[1].blocks) :
      LET b == screen[1].blocks[i]
          sample == DictAt(device_stats, b.device_id)
      IN /\ sample.power_watts = None => b.power = NA
         /\ sample.temp_c = None => b.temp = NA

BlockIds(payload) == [i \in 1..Len(payload.blocks) |-> payload.blocks[i].device_id]

\* C8: every payload lists its devices in strictly ascending id order; the
\* payload of the current store holds every stored id exactly once, and an id
\* without metadata is labelled Device <id>.
C8_AscendingEveryId ==
  screen # None =>
    LET ids == BlockIds(screen[1]) IN
    /\ \A i \in 1..Len(ids), j \in 1..Len(ids) : i < j => ids[i] < ids[j]
    /\ pc = "read" =>
         /\ {ids[i] : i \in 1..Len(ids)} = KeySet(device_stats)
         /\ Len(ids) = Len(device_stats)
         /\ \A i \in 1..Len(ids) :
              ~HasKey(metadata, ids[i]) =>
                 screen[1].blocks[i].label = <<"Device", ids[i]>>

\* three devices arrived in the order 2, 1, 0 (one of them without metadata)
\* and are on screen
C8_Witness ==
  /\ pc = "read"
  /\ screen # None
  /\ Keys(device_stats) = <<2, 1, 0>>
  /\ BlockIds(screen[1]) = <<0, 1, 2>>
  /\ ~HasKey(metadata, 2)
  /\ HasKey(metadata, 0)

(***************************************************************************)
(* Resolution                                                              *)
(***************************************************************************)
\* the candidates the documentation promises for a requested command
Promised(binary) == IF binary = "auto" THEN <<"xpumcli", "xpu-smi">> ELSE <<binary>>

\* the path a resolvable candidate stands for
PathOf(candidate) ==
  IF candidate = "/opt/xpum/bin/xpumcli" THEN candidate ELSE "/usr/bin/" \o candidate

NoneResolves(binary) == \A i \in 1..Len(Promised(binary)) : Promised(binary)[i] \notin fs

\* C9: once resolution has run (and no signal ended the process before it),
\* either no candidate resolves, and the process has exited with status 1
\* after writing one message that names every candidate, having done nothing
\* else; or the path of the first resolvable candidate was returned.
C9_ResolutionOutcome ==
  (pc # "resolve" /\ ~(cmd_path = None /\ sig_log # {})) =>
    IF NoneResolves(cmd)
    THEN /\ pc = "exited"
         /\ exit_code = Some(1)
         /\ Len(stderr) = 1
         /\ stderr[1].kind = "not_found"
         /\ stderr[1].tried = Promised(cmd)
         /\ done = {}
         /\ cmd_path = None
         /\ proc = "none" /\ ~alt_on /\ screen = None
    ELSE \E i \in 1..Len(Promised(cmd)) :
           /\ Promised(cmd)[i] \in fs
           /\ \A j \in 1..(i - 1) : Promised(cmd)[j] \notin fs
           /\ cmd_path = Some(PathOf(Promised(cmd)[i]))

\* auto-detection failed on a machine with neither tool
C9_WitnessFailure ==
  /\ pc = "exited"
  /\ cmd = "auto"
  /\ fs \cap {"xpumcli", "xpu-smi"} = {}
  /\ exit_code = Some(1)
  /\ stderr # <<>>

(***************************************************************************)
(* The store                                                               *)
(***************************************************************************)
\* the sample a row stands for, read off its own fields alone
SampleOfRow(hdr, fields) ==
  LET ts == FieldUnder(hdr, fields, ColTs) IN
  [timestamp |-> IF ts = None THEN <<>> ELSE ts[1],
   mem_used_mib |-> to_float(FieldUnder(hdr, fields, ColUsed)),
   mem_util_percent |-> to_float(FieldUnder(hdr, fields, ColUtil)),
   power_watts |-> to_float(FieldUnder(hdr, fields, ColPower)),
   temp_c |-> to_float(FieldUnder(hdr, fields, ColTemp))]

IdOfRow(hdr, fields) == DecVal(Strip(FieldUnder(hdr, fields, ColId)[1]))

\* an accepted row replaces its own id's sample wholesale and nothing else
AcceptedRowStored ==
  ReadsText =>
    LET fields == parse_csv_line(line'[1]) IN
    (IsDataRow(fields) /\ ~RowRejected(headers, fields)) =>
      LET id == IdOfRow(headers[1], fields) IN
      /\ KeySet(device_stats') = KeySet(device_stats) \cup {id}
      /\ Len(device_stats') = Cardinality(KeySet(device_stats'))
      /\ DictAt(device_stats', id) = SampleOfRow(headers[1], fields)
      /\ \A k \in KeySet(device_stats) \ {id} :
           DictAt(device_stats', k) = DictAt(device_stats, k)
      /\ pc' = "render"

\* the store changes only by an accepted row, and never loses an id
StoreOnlyGrows ==
  /\ KeySet(device_stats) \subseteq KeySet(device_stats')
  /\ device_stats' # device_stats =>
       (ReadsText /\ pc' = "render"
        /\ LET fields == parse_csv_line(line'[1]) IN
           IsDataRow(fields) /\ ~RowRejected(headers, fields))

\* the screen is written only by the render that follows an accepted row, with
\* the whole updated store, before the next read
RenderAfterAccept ==
  /\ (pc = "render" /\ pc' = "read") =>
       screen' = render_dashboard(device_stats, metadata, bar_width)
  /\ screen' # screen => (pc = "render" /\ pc' = "read")
  /\ (pc = "render" /\ pc' # "render") => pc' \in {"read", "except", "poll", "exited"}

\* C10: the store holds exactly the ids of the accepted rows, each with the
\* sample of its latest accepted row; a row replaces its own id's sample
\* wholesale, leaves the others alone, no id is removed, and the updated store
\* is rendered in full once before the next line is read.
C10_StoreLatestAndRendered ==
  /\ [][AcceptedRowStored /\ StoreOnlyGrows /\ RenderAfterAccept]_vars
  /\ []((pc = "read" /\ device_stats # <<>>) =>
          screen = render_dashboard(device_stats, metadata, bar_width))
  /\ []((pc \in Starting) => device_stats = <<>>)

\* device 0 was stored with readings, then overwritten by a row without any,
\* with device 1 stored in between, and the result is on screen
C10_Witness ==
  /\ pc = "read"
  /\ Keys(device_stats) = <<0, 1>>
  /\ DictAt(device_stats, 0).mem_used_mib = None
  /\ DictAt(device_stats, 0).power_watts = None
  /\ DictAt(device_stats, 0).timestamp = <<"2">>
  /\ DictAt(device_stats, 1).temp_c = Some(400)
  /\ screen = render_dashboard(device_stats, metadata, bar_width)

====
